---- MODULE Spec2Model ----
(***************************************************************************)
(* Model of guardrails.py: the interactive PII guard built from            *)
(*   query          - one remote model call, offloaded to a worker thread  *)
(*   pii_detection  - boolean classification of a sentence                 *)
(*   pii_extraction - schema-validated extraction with 3 attempts          *)
(*   main           - the read / classify / extract loop                   *)
(*                                                                         *)
(* Texts (Python str) are sequences of one-character strings.  An optional *)
(* text (Optional[str]) is a record [some, text]; None has some = FALSE.   *)
(* PII is a pydantic v1 model (parse_raw / dict, Optional fields default   *)
(* to None); its validation is modelled after that library's behaviour.    *)
(***************************************************************************)
EXTENDS Integers, Sequences, FiniteSets, TLC

(***************************************************************************)
(* Bounds of the model.                                                    *)
(***************************************************************************)
\* number of sentences main reads before the model stops reading
MaxTurns == 2
\* longest response text enumerated for the classification rule
MaxLen == 6

(***************************************************************************)
(* Texts.                                                                  *)
(***************************************************************************)
None == [some |-> FALSE, text |-> <<>>]
Some(t) == [some |-> TRUE, text |-> t]

\* str.strip() with no argument removes leading and trailing whitespace
Whitespace == {" ", "\t", "\n", "\r", "\f"}

RECURSIVE LStrip(_)
LStrip(t) ==
    IF t # <<>> /\ Head(t) \in Whitespace THEN LStrip(Tail(t)) ELSE t

RECURSIVE RStrip(_)
RStrip(t) ==
    IF t # <<>> /\ t[Len(t)] \in Whitespace
    THEN RStrip(SubSeq(t, 1, Len(t) - 1))
    ELSE t

Strip(t) == RStrip(LStrip(t))

\* str.startswith(prefix)
StartsWith(t, p) == Len(t) >= Len(p) /\ SubSeq(t, 1, Len(p)) = p

TrueLit == <<"T", "r", "u", "e">>
FalseLit == <<"F", "a", "l", "s", "e">>
trueLower == <<"t", "r", "u", "e">>

\* variant: the prefix test without strip()
Classify_NoStrip(t) == IF StartsWith(t, TrueLit) THEN TRUE ELSE FALSE

\* lines 80-84 of pii_detection, applied to a text returned by query
Classify(t) == IF StartsWith(Strip(t), TrueLit) THEN TRUE ELSE FALSE

(***************************************************************************)
(* JSON decoding of a response text, as json.loads does it for the subset  *)
(* of JSON the model's texts use: whitespace, null, true, false, unsigned  *)
(* integers, strings without escapes, arrays and objects.  A decoded value *)
(* is a record [k, v]: k is its kind, v its payload.  For a number or a    *)
(* boolean v is the text Python's str() gives for it.                      *)
(***************************************************************************)
JsonWs == {" ", "\t", "\n", "\r"}
Digits == {"0", "1", "2", "3", "4", "5", "6", "7", "8", "9"}
ControlChars == {"\t", "\n", "\r", "\f"}
Quote == "\""

JNull == [k |-> "null", v |-> <<>>]
JBool(b) == [k |-> "bool", v |-> IF b THEN TrueLit ELSE FalseLit]
JNum(d) == [k |-> "num", v |-> d]
JStr(t) == [k |-> "str", v |-> t]
JList(vs) == [k |-> "list", v |-> vs]
JObj(ps) == [k |-> "obj", v |-> ps]

ParseFail == [ok |-> FALSE, val |-> JNull, next |-> 0]
ParseOk(val, next) == [ok |-> TRUE, val |-> val, next |-> next]

\* t[i..j], cut at the end of t
Slice(t, i, j) == SubSeq(t, i, IF j <= Len(t) THEN j ELSE Len(t))

\* the character at position i, "" past the end
At(t, i) == IF i >= 1 /\ i <= Len(t) THEN t[i] ELSE ""

RECURSIVE SkipWs(_, _)
SkipWs(t, i) == IF At(t, i) \in JsonWs THEN SkipWs(t, i + 1) ELSE i

\* position of the first Quote at or after i, 0 if there is none
RECURSIVE FindQuote(_, _)
FindQuote(t, i) ==
    IF i > Len(t) THEN 0
    ELSE IF t[i] = Quote THEN i
    ELSE FindQuote(t, i + 1)

\* a string literal starting at the Quote at position i
ParseString(t, i) ==
    LET j == FindQuote(t, i + 1)
        body == SubSeq(t, i + 1, j - 1)
    IN  IF At(t, i) # Quote \/ j = 0 THEN ParseFail
        ELSE IF \E n \in 1..Len(body) : body[n] \in ControlChars \cup {"\\"}
             THEN ParseFail
        ELSE ParseOk(JStr(body), j + 1)

RECURSIVE DigitsEnd(_, _)
DigitsEnd(t, i) == IF At(t, i) \in Digits THEN DigitsEnd(t, i + 1) ELSE i

\* an unsigned integer starting at the digit at position i
ParseNumber(t, i) ==
    LET j == IF t[i] = "0" THEN i + 1 ELSE DigitsEnd(t, i)
    IN  ParseOk(JNum(SubSeq(t, i, j - 1)), j)

RECURSIVE ParseValue(_, _)
RECURSIVE ParseElements(_, _, _)
RECURSIVE ParseMembers(_, _, _)
RECURSIVE ParseMember(_, _, _, _)

\* the element of a one-element set: {F(x) : x \in {e}} computes e once
Only(S) == CHOOSE x \in S : TRUE

\* the elements of an array, the first one expected at position i
ParseElements(t, i, acc) ==
    Only({Only({IF ~e.ok THEN ParseFail
                ELSE IF At(t, j) = ","
                     THEN ParseElements(t, j + 1, Append(acc, e.val))
                ELSE IF At(t, j) = "]"
                     THEN ParseOk(JList(Append(acc, e.val)), j + 1)
                ELSE ParseFail
                    : j \in {SkipWs(t, e.next)}})
              : e \in {ParseValue(t, i)}})

\* the rest of a member whose key ends before position c
ParseMember(t, key, c, acc) ==
    Only({Only({IF ~e.ok THEN ParseFail
                ELSE IF At(t, j) = ","
                     THEN ParseMembers(t, j + 1, Append(acc, <<key, e.val>>))
                ELSE IF At(t, j) = "}"
                     THEN ParseOk(JObj(Append(acc, <<key, e.val>>)), j + 1)
                ELSE ParseFail
                    : j \in {SkipWs(t, e.next)}})
              : e \in {ParseValue(t, c + 1)}})

\* the members of an object, the first key expected at position i
ParseMembers(t, i, acc) ==
    Only({Only({IF ~key.ok \/ At(t, c) # ":" THEN ParseFail
                ELSE ParseMember(t, key.val, c, acc)
                    : c \in {SkipWs(t, key.next)}})
              : key \in {ParseString(t, SkipWs(t, i))}})

ParseValue(t, i0) ==
    LET i == SkipWs(t, i0)
        c == At(t, i)
    IN  IF c = "{" THEN
            IF At(t, SkipWs(t, i + 1)) = "}"
            THEN ParseOk(JObj(<<>>), SkipWs(t, i + 1) + 1)
            ELSE ParseMembers(t, i + 1, <<>>)
        ELSE IF c = "[" THEN
            IF At(t, SkipWs(t, i + 1)) = "]"
            THEN ParseOk(JList(<<>>), SkipWs(t, i + 1) + 1)
            ELSE ParseElements(t, i + 1, <<>>)
        ELSE IF c = Quote THEN ParseString(t, i)
        ELSE IF c \in Digits THEN ParseNumber(t, i)
        ELSE IF Slice(t, i, i + 3) = <<"n", "u", "l", "l">>
             THEN ParseOk(JNull, i + 4)
        ELSE IF Slice(t, i, i + 3) = trueLower
             THEN ParseOk(JBool(TRUE), i + 4)
        ELSE IF Slice(t, i, i + 4) = <<"f", "a", "l", "s", "e">>
             THEN ParseOk(JBool(FALSE), i + 5)
        ELSE ParseFail

\* json.loads(text): one value, nothing but whitespace after it
JsonLoads(t) ==
    LET r == ParseValue(t, 1)
    IN  IF r.ok /\ SkipWs(t, r.next) > Len(t) THEN r ELSE ParseFail

(***************************************************************************)
(* The PII model (lines 27-35) and PII.parse_raw(...).dict() (113-114).    *)
(***************************************************************************)
explanationK == <<"e", "x", "p", "l", "a", "n", "a", "t", "i", "o", "n">>
nameK == <<"n", "a", "m", "e">>
numberK == <<"n", "u", "m", "b", "e", "r">>
emailK == <<"e", "m", "a", "i", "l">>
addressK == <<"a", "d", "d", "r", "e", "s", "s">>
social_security_numberK ==
    <<"s", "o", "c", "i", "a", "l", "_", "s", "e", "c", "u", "r", "i", "t", "y",
      "_", "n", "u", "m", "b", "e", "r">>
credit_card_numberK ==
    <<"c", "r", "e", "d", "i", "t", "_", "c", "a", "r", "d", "_",
      "n", "u", "m", "b", "e", "r">>
errorK == <<"e", "r", "r", "o", "r">>

\* the seven fields of class PII
PIIFields ==
    {explanationK, nameK, numberK, emailK, addressK,
     social_security_numberK, credit_card_numberK}

Hashable(val) == val.k \in {"null", "bool", "num", "str"}

\* dict(x) for an element x of a list: does it give a key/value pair
IsPair(x) ==
    \/ x.k = "list" /\ Len(x.v) = 2 /\ Hashable(x.v[1])
    \/ x.k = "str" /\ Len(x.v) = 2

PairOf(x) ==
    IF x.k = "list" THEN <<x.v[1], x.v[2]>>
    ELSE <<JStr(<<x.v[1]>>), JStr(<<x.v[2]>>)>>

\* parse_obj: a decoded value that is not a dict goes through dict(obj);
\* TypeError and ValueError there become a ValidationError
CanBeDict(val) ==
    \/ val.k = "obj"
    \/ val.k = "list" /\ \A n \in 1..Len(val.v) : IsPair(val.v[n])
    \/ val.k = "str" /\ val.v = <<>>

AsDict(val) ==
    IF val.k = "obj" THEN val.v
    ELSE IF val.k = "list" THEN [n \in 1..Len(val.v) |-> PairOf(val.v[n])]
    ELSE <<>>

\* dict.get(key) on key/value pairs where a later pair replaces an earlier
\* one with the same key; found = FALSE when the key is missing
RECURSIVE DictGet(_, _, _)
DictGet(ps, key, n) ==
    IF n = 0 THEN [found |-> FALSE, val |-> JNull]
    ELSE IF ps[n][1] = JStr(key) THEN [found |-> TRUE, val |-> ps[n][2]]
    ELSE DictGet(ps, key, n - 1)

\* variant: every field has to be present in the response
FieldOk_Required(e) == e.found /\ e.val.k \in {"null", "str", "num", "bool"}

\* Optional[str] with no default: a missing key and null give None, a str
\* is kept, a number or boolean is coerced by str(), anything else fails
FieldOk(e) == ~e.found \/ e.val.k \in {"null", "str", "num", "bool"}

FieldValue(e) ==
    IF ~e.found \/ e.val.k = "null" THEN None ELSE Some(e.val.v)

NoRecord == [f \in PIIFields |-> None]

\* PII.parse_raw(response).dict(): ok = FALSE stands for ValidationError
ParseRaw(response) ==
    IF ~response.some THEN [ok |-> FALSE, dict |-> NoRecord]
    ELSE Only({IF ~j.ok THEN [ok |-> FALSE, dict |-> NoRecord]
               ELSE IF ~CanBeDict(j.val) THEN [ok |-> FALSE, dict |-> NoRecord]
               ELSE Only({IF \E f \in PIIFields : ~FieldOk(DictGet(d, f, Len(d)))
                          THEN [ok |-> FALSE, dict |-> NoRecord]
                          ELSE [ok |-> TRUE,
                                dict |-> [f \in PIIFields |->
                                            FieldValue(DictGet(d, f, Len(d)))]]
                          : d \in {AsDict(j.val)}})
               : j \in {JsonLoads(response.text)}})

\* line 122: {"error": "Max retries reached"}
MaxRetriesText ==
    <<"M", "a", "x", " ", "r", "e", "t", "r", "i", "e", "s", " ",
      "r", "e", "a", "c", "h", "e", "d">>
\* variant: exhaustion reported as a record with no field set
ErrorMarker_EmptyRecord == [f \in PIIFields |-> None]

ErrorMarker == [f \in {errorK} |-> Some(MaxRetriesText)]

(***************************************************************************)
(* The texts the remote model answers with in this model.                  *)
(***************************************************************************)
Q(t) == <<Quote>> \o t \o <<Quote>>
Obj1(key, val) == <<"{">> \o Q(key) \o <<":">> \o val \o <<"}">>
nullLit == <<"n", "u", "l", "l">>

TxtTrue == TrueLit
TxtTruePadded == <<" ">> \o TrueLit \o <<".", "\n">>
TxtFalse == FalseLit
TxtEmpty == <<>>
TxtLowerTrue == trueLower
TxtEmptyObj == <<"{", "}">>
TxtEmail == Obj1(emailK, Q(<<"a", "@", "b">>))
TxtSsnOnly ==
    <<"{">> \o Q(social_security_numberK) \o <<":">> \o Q(<<"1", "2">>)
        \o <<",", " ">> \o Q(nameK) \o <<":">> \o nullLit \o <<"}">>
TxtErrorObj == Obj1(errorK, Q(<<"x">>))
TxtNameNumber == Obj1(nameK, <<"5">>)
TxtNameList == Obj1(nameK, <<"[", "1", "]">>)
TxtNumber == <<"5">>
TxtEmptyList == <<"[", "]">>
TxtNull == nullLit
TxtTruncated == <<"{">> \o Q(nameK) \o <<":">>
TxtProse == <<"N", "o", " ">> \o TxtEmptyObj

ClassifyTexts == {TxtTrue, TxtTruePadded, TxtFalse, TxtEmpty, TxtLowerTrue}
JsonTexts ==
    {TxtEmptyObj, TxtEmail, TxtSsnOnly, TxtErrorObj, TxtNameNumber,
     TxtNameList, TxtNumber, TxtEmptyList, TxtNull, TxtTruncated, TxtProse}
Texts == ClassifyTexts \cup JsonTexts

(***************************************************************************)
(* The sentences typed at the prompt of main.                              *)
(***************************************************************************)
UpperAlpha ==
    <<"A", "B", "C", "D", "E", "F", "G", "H", "I", "J", "K", "L", "M",
      "N", "O", "P", "Q", "R", "S", "T", "U", "V", "W", "X", "Y", "Z">>
LowerAlpha ==
    <<"a", "b", "c", "d", "e", "f", "g", "h", "i", "j", "k", "l", "m",
      "n", "o", "p", "q", "r", "s", "t", "u", "v", "w", "x", "y", "z">>

LowerChar(c) ==
    IF \E n \in 1..26 : UpperAlpha[n] = c
    THEN LowerAlpha[CHOOSE n \in 1..26 : UpperAlpha[n] = c]
    ELSE c

\* variant: the comparison without lower()
Lower_Identity(t) == t

\* str.lower()
Lower(t) == [n \in 1..Len(t) |-> LowerChar(t[n])]

exitLit == <<"e", "x", "i", "t">>
SentExit == exitLit
SentExitUpper == <<"E", "X", "I", "T">>
SentExitMixed == <<"E", "x", "i", "T">>
SentExitSpace == <<"e", "x", "i", "t", " ">>
SentSsn == <<"S", "S", "N", " ", "1", "2">>
Sentences == {SentExit, SentExitUpper, SentExitMixed, SentExitSpace, SentSsn}
NoSentence == <<>>

(***************************************************************************)
(* What client.invoke_model does on the worker thread: it raises, or it    *)
(* returns a response whose body is malformed, or a JSON object with or    *)
(* without a "completion" text.                                            *)
(***************************************************************************)
InvokeOutcomes ==
    {[kind |-> "transport", completion |-> None],
     [kind |-> "badbody", completion |-> None],
     [kind |-> "ok", completion |-> None]}
    \cup {[kind |-> "ok", completion |-> Some(t)] : t \in Texts}
NoOutcome == [kind |-> "none", completion |-> None]

\* variant: one attempt more (while retries <= 3)
MaxAttempts_Four == 3 + 1

\* line 110: while retries < 3
MaxAttempts == 3

\* line 108: backoff_time = 1
InitialBackoff == 1
\* line 121: backoff_time += 1
BackoffStep == 1

\* variant: a handler that matches no exception
Catches_Nothing(e) == FALSE
\* variant: a bare except
Catches_All(e) == e # "none"

\* line 116: the only exception the retry loop catches
Catches(e) == e = "ValidationError"

VARIABLES
    pc,            \* where the chain main -> pii_detection / pii_extraction -> query stands
    turn,          \* number of sentences read so far
    sentence,      \* main: the sentence of the current turn
    contains_pii,  \* main: the value pii_detection returned
    pii_info,      \* main: the dict pii_extraction returned
    caller,        \* which coroutine awaits query
    pools,         \* number of live ThreadPoolExecutors
    worker,        \* the worker thread running invoke_model
    wres,          \* what invoke_model produced
    response,      \* the value query returned to its caller
    retries,       \* pii_extraction: failed attempts so far
    backoff_time,  \* pii_extraction: seconds of the next sleep
    exc,           \* the exception being raised, "none" if none
    requests,      \* prompts sent to the endpoint in this turn
    loop,          \* the event-loop thread: running a coroutine, free, blocked or stopped
    log            \* events of this turn, in order

vars ==
    <<pc, turn, sentence, contains_pii, pii_info, caller, pools, worker, wres,
      response, retries, backoff_time, exc, requests, loop, log>>

Ev(e, n) == [ev |-> e, n |-> n]
NoDict == [f \in {} |-> None]

Init ==
    /\ pc = "main_input"
    /\ turn = 0
    /\ sentence = NoSentence
    /\ contains_pii = FALSE
    /\ pii_info = NoDict
    /\ caller = "none"
    /\ pools = 0
    /\ worker = "idle"
    /\ wres = NoOutcome
    /\ response = None
    /\ retries = 0
    /\ backoff_time = 0
    /\ exc = "none"
    /\ requests = <<>>
    /\ loop = "blocked"
    /\ log = <<>>

\* main, lines 127-132: read a sentence; "exit" in any case leaves the loop
MainInput(s) ==
    /\ pc = "main_input"
    /\ turn < MaxTurns
    /\ turn' = turn + 1
    /\ sentence' = s
    /\ pc' = IF Lower(s) = exitLit THEN "main_exit" ELSE "det_call"
    /\ contains_pii' = FALSE
    /\ pii_info' = NoDict
    /\ response' = None
    /\ requests' = <<>>
    /\ log' = <<>>
    /\ loop' = IF Lower(s) = exitLit THEN "stopped" ELSE "running"
    /\ UNCHANGED <<caller, pools, worker, wres, retries, backoff_time, exc>>

\* pii_detection, lines 66-79: build the prompt and await query
DetectionCall ==
    /\ pc = "det_call"
    /\ caller' = "detect"
    /\ pc' = "q_start"
    /\ log' = Append(log, Ev("detect_call", 0))
    /\ loop' = loop
    /\ UNCHANGED <<turn, sentence, contains_pii, pii_info, pools, worker, wres,
                   response, retries, backoff_time, exc, requests>>

\* variant: the loop thread waits for the submitted call (future.result())
QueryStart_Blocking ==
    /\ pc = "q_start"
    /\ pools' = pools + 1
    /\ worker' = "running"
    /\ requests' = Append(requests, [kind |-> caller, sentence |-> sentence])
    /\ pc' = "q_await"
    /\ log' = Append(log, Ev("query_call", 0))
    /\ loop' = "blocked"
    /\ UNCHANGED <<turn, sentence, contains_pii, pii_info, caller, wres,
                   response, retries, backoff_time, exc>>

\* query, lines 40-51: open a pool, hand invoke_model to it and suspend
QueryStart ==
    /\ pc = "q_start"
    /\ pools' = pools + 1
    /\ worker' = "running"
    /\ requests' = Append(requests, [kind |-> caller, sentence |-> sentence])
    /\ pc' = "q_await"
    /\ log' = Append(log, Ev("query_call", 0))
    /\ loop' = "free"
    /\ UNCHANGED <<turn, sentence, contains_pii, pii_info, caller, wres,
                   response, retries, backoff_time, exc>>

\* lines 53-58, on the worker thread: the remote call completes or fails
InvokeModel(o) ==
    /\ worker = "running"
    /\ worker' = "finished"
    /\ wres' = o
    /\ log' = Append(log, Ev("invoke_done", 0))
    /\ loop' = loop
    /\ UNCHANGED <<pc, turn, sentence, contains_pii, pii_info, caller, pools,
                   response, retries, backoff_time, exc, requests>>

\* variant: a failed remote call is issued once more by query itself
QueryFinish_RetryOnce ==
    /\ pc = "q_await"
    /\ worker = "finished"
    /\ IF wres.kind = "ok"
       THEN /\ response' = wres.completion
            /\ exc' = exc
            /\ pools' = pools - 1
            /\ worker' = "idle"
            /\ pc' = IF caller = "detect" THEN "det_decide" ELSE "ext_parse"
            /\ log' = Append(log, Ev("query_ret", 0))
       ELSE IF \A n \in 1..Len(log) : log[n].ev # "retry"
       THEN /\ response' = response
            /\ exc' = exc
            /\ pools' = pools
            /\ worker' = "running"
            /\ pc' = "q_await"
            /\ log' = Append(log, Ev("retry", 0))
       ELSE /\ response' = response
            /\ exc' = IF wres.kind = "transport"
                      THEN "TransportError" ELSE "BodyError"
            /\ pools' = pools - 1
            /\ worker' = "idle"
            /\ pc' = IF caller = "detect" THEN "main_raised" ELSE "ext_raise"
            /\ log' = Append(log, Ev("query_raise", 0))
    /\ wres' = NoOutcome
    /\ loop' = IF wres.kind = "ok" THEN "running"
               ELSE IF \A n \in 1..Len(log) : log[n].ev # "retry" THEN "free"
               ELSE IF caller = "detect" THEN "stopped" ELSE "running"
    /\ UNCHANGED <<turn, sentence, contains_pii, pii_info, caller, retries,
                   backoff_time, requests>>

\* variant: the pool is shut down only when the remote call succeeded
QueryFinish_LeakOnError ==
    /\ pc = "q_await"
    /\ worker = "finished"
    /\ pools' = IF wres.kind = "ok" THEN pools - 1 ELSE pools
    /\ worker' = "idle"
    /\ wres' = NoOutcome
    /\ IF wres.kind = "ok"
       THEN /\ response' = wres.completion
            /\ exc' = exc
            /\ pc' = IF caller = "detect" THEN "det_decide" ELSE "ext_parse"
            /\ log' = Append(log, Ev("query_ret", 0))
       ELSE /\ response' = response
            /\ exc' = IF wres.kind = "transport"
                      THEN "TransportError" ELSE "BodyError"
            /\ pc' = IF caller = "detect" THEN "main_raised" ELSE "ext_raise"
            /\ log' = Append(log, Ev("query_raise", 0))
    /\ loop' = IF wres.kind # "ok" /\ caller = "detect" THEN "stopped" ELSE "running"
    /\ UNCHANGED <<turn, sentence, contains_pii, pii_info, caller, retries,
                   backoff_time, requests>>

\* query, lines 51-61: the pool is shut down on leaving the with block, then
\* the worker's exception is raised or the body is decoded and its
\* "completion" returned.  pii_detection and main have no handler; in
\* pii_extraction the call stands inside the try block.
QueryFinish ==
    /\ pc = "q_await"
    /\ worker = "finished"
    /\ pools' = pools - 1
    /\ worker' = "idle"
    /\ wres' = NoOutcome
    /\ IF wres.kind = "ok"
       THEN /\ response' = wres.completion
            /\ exc' = exc
            /\ pc' = IF caller = "detect" THEN "det_decide" ELSE "ext_parse"
            /\ log' = Append(log, Ev("query_ret", 0))
       ELSE /\ response' = response
            /\ exc' = IF wres.kind = "transport"
                      THEN "TransportError" ELSE "BodyError"
            /\ pc' = IF caller = "detect" THEN "main_raised" ELSE "ext_raise"
            /\ log' = Append(log, Ev("query_raise", 0))
    /\ loop' = IF wres.kind # "ok" /\ caller = "detect" THEN "stopped" ELSE "running"
    /\ UNCHANGED <<turn, sentence, contains_pii, pii_info, caller, retries,
                   backoff_time, requests>>

\* pii_detection, lines 80-84: None has no strip()
DetectionDecide ==
    /\ pc = "det_decide"
    /\ IF response.some
       THEN /\ contains_pii' = Classify(response.text)
            /\ pc' = "main_report"
            /\ exc' = exc
            /\ log' = Append(log, Ev("detect_ret",
                                     IF Classify(response.text) THEN 1 ELSE 0))
       ELSE /\ contains_pii' = contains_pii
            /\ pc' = "main_raised"
            /\ exc' = "AttributeError"
            /\ log' = Append(log, Ev("detect_raise", 0))
    /\ loop' = IF response.some THEN "running" ELSE "stopped"
    /\ UNCHANGED <<turn, sentence, pii_info, caller, pools, worker, wres,
                   response, retries, backoff_time, requests>>

\* variant: extraction whatever the verdict
MainReport_Always ==
    /\ pc = "main_report"
    /\ pc' = "ext_call"
    /\ loop' = "running"
    /\ UNCHANGED <<turn, sentence, contains_pii, pii_info, caller, pools,
                   worker, wres, response, retries, backoff_time, exc,
                   requests, log>>

\* main, lines 134-139: print the verdict, go on to extraction if positive
MainReport ==
    /\ pc = "main_report"
    /\ pc' = IF contains_pii THEN "ext_call" ELSE "main_input"
    /\ loop' = IF contains_pii THEN "running" ELSE "blocked"
    /\ UNCHANGED <<turn, sentence, contains_pii, pii_info, caller, pools,
                   worker, wres, response, retries, backoff_time, exc,
                   requests, log>>

\* variant: the counter and the delay are kept from the invocation before
ExtractionCall_NoReset ==
    /\ pc = "ext_call"
    /\ retries' = retries
    /\ backoff_time' = backoff_time
    /\ pc' = "ext_loop"
    /\ log' = Append(log, Ev("extract_call", 0))
    /\ loop' = loop
    /\ UNCHANGED <<turn, sentence, contains_pii, pii_info, caller, pools,
                   worker, wres, response, exc, requests>>

\* pii_extraction, lines 89-108
ExtractionCall ==
    /\ pc = "ext_call"
    /\ retries' = 0
    /\ backoff_time' = InitialBackoff
    /\ pc' = "ext_loop"
    /\ log' = Append(log, Ev("extract_call", 0))
    /\ loop' = loop
    /\ UNCHANGED <<turn, sentence, contains_pii, pii_info, caller, pools,
                   worker, wres, response, exc, requests>>

\* pii_extraction, lines 110-112 and 122: next attempt, or the marker
ExtractionLoop ==
    /\ pc = "ext_loop"
    /\ IF retries < MaxAttempts
       THEN /\ caller' = "extract"
            /\ pc' = "q_start"
            /\ pii_info' = pii_info
            /\ log' = Append(log, Ev("attempt", retries + 1))
       ELSE /\ caller' = caller
            /\ pc' = "main_show"
            /\ pii_info' = ErrorMarker
            /\ log' = Append(log, Ev("extract_ret", 0))
    /\ loop' = loop
    /\ UNCHANGED <<turn, sentence, contains_pii, pools, worker, wres,
                   response, retries, backoff_time, exc, requests>>

\* variant: the record is built but the loop goes on
ExtractionParse_NoReturn ==
    /\ pc = "ext_parse"
    /\ \E parsed_response \in {ParseRaw(response)} :
       IF parsed_response.ok
       THEN /\ pii_info' = parsed_response.dict
            /\ pc' = "ext_loop"
            /\ exc' = exc
            /\ log' = Append(log, Ev("valid", 0))
       ELSE /\ pii_info' = pii_info
            /\ pc' = "ext_raise"
            /\ exc' = "ValidationError"
            /\ log' = Append(log, Ev("invalid", 0))
    /\ loop' = loop
    /\ UNCHANGED <<turn, sentence, contains_pii, caller, pools, worker, wres,
                   response, retries, backoff_time, requests>>

\* pii_extraction, lines 113-114: validate the response, return the record
ExtractionParse ==
    /\ pc = "ext_parse"
    /\ \E parsed_response \in {ParseRaw(response)} :
       IF parsed_response.ok
       THEN /\ pii_info' = parsed_response.dict
            /\ pc' = "main_show"
            /\ exc' = exc
            /\ log' = log \o <<Ev("valid", 0), Ev("extract_ret", 0)>>
       ELSE /\ pii_info' = pii_info
            /\ pc' = "ext_raise"
            /\ exc' = "ValidationError"
            /\ log' = Append(log, Ev("invalid", 0))
    /\ loop' = loop
    /\ UNCHANGED <<turn, sentence, contains_pii, caller, pools, worker, wres,
                   response, retries, backoff_time, requests>>

\* variant: no sleep once the attempts are used up
ExtractionExcept_NoLastSleep ==
    /\ pc = "ext_raise"
    /\ IF Catches(exc)
       THEN /\ retries' = retries + 1
            /\ exc' = "none"
            /\ pc' = IF retries + 1 < MaxAttempts THEN "ext_sleep" ELSE "ext_loop"
            /\ log' = IF retries + 1 < MaxAttempts
                      THEN log \o <<Ev("caught", retries + 1),
                                    Ev("sleep", backoff_time)>>
                      ELSE Append(log, Ev("caught", retries + 1))
       ELSE /\ retries' = retries
            /\ exc' = exc
            /\ pc' = "main_raised"
            /\ log' = Append(log, Ev("extract_raise", 0))
    /\ loop' = IF ~Catches(exc) THEN "stopped"
               ELSE IF retries + 1 < MaxAttempts THEN "free" ELSE "running"
    /\ UNCHANGED <<turn, sentence, contains_pii, pii_info, caller, pools,
                   worker, wres, response, backoff_time, requests>>

\* variant: the retry follows the failure without any sleep
ExtractionExcept_NoBackoff ==
    /\ pc = "ext_raise"
    /\ IF Catches(exc)
       THEN /\ retries' = retries + 1
            /\ exc' = "none"
            /\ pc' = "ext_loop"
            /\ log' = Append(log, Ev("caught", retries + 1))
       ELSE /\ retries' = retries
            /\ exc' = exc
            /\ pc' = "main_raised"
            /\ log' = Append(log, Ev("extract_raise", 0))
    /\ loop' = IF Catches(exc) THEN "running" ELSE "stopped"
    /\ UNCHANGED <<turn, sentence, contains_pii, pii_info, caller, pools,
                   worker, wres, response, backoff_time, requests>>

\* pii_extraction, lines 116-119: a ValidationError is counted and the
\* coroutine sleeps; any other exception leaves pii_extraction and main
ExtractionExcept ==
    /\ pc = "ext_raise"
    /\ IF Catches(exc)
       THEN /\ retries' = retries + 1
            /\ exc' = "none"
            /\ pc' = "ext_sleep"
            /\ log' = log \o <<Ev("caught", retries + 1),
                               Ev("sleep", backoff_time)>>
       ELSE /\ retries' = retries
            /\ exc' = exc
            /\ pc' = "main_raised"
            /\ log' = Append(log, Ev("extract_raise", 0))
    /\ loop' = IF Catches(exc) THEN "free" ELSE "stopped"
    /\ UNCHANGED <<turn, sentence, contains_pii, pii_info, caller, pools,
                   worker, wres, response, backoff_time, requests>>

\* variant: a sleep that never returns
SleepElapse_Never ==
    /\ pc = "ext_sleep"
    /\ backoff_time < 0
    /\ UNCHANGED vars

\* pii_extraction, lines 119-121: the sleep elapses, the backoff grows
SleepElapse ==
    /\ pc = "ext_sleep"
    /\ backoff_time' = backoff_time + BackoffStep
    /\ pc' = "ext_loop"
    /\ log' = Append(log, Ev("wake", 0))
    /\ loop' = "running"
    /\ UNCHANGED <<turn, sentence, contains_pii, pii_info, caller, pools,
                   worker, wres, response, retries, exc, requests>>

\* main, lines 141-145: print the fields of the returned dict
MainShow ==
    /\ pc = "main_show"
    /\ pc' = "main_input"
    /\ loop' = "blocked"
    /\ UNCHANGED <<turn, sentence, contains_pii, pii_info, caller, pools,
                   worker, wres, response, retries, backoff_time, exc,
                   requests, log>>

Next ==
    \/ \E s \in Sentences : MainInput(s)
    \/ DetectionCall
    \/ QueryStart
    \/ \E o \in InvokeOutcomes : InvokeModel(o)
    \/ QueryFinish
    \/ DetectionDecide
    \/ MainReport
    \/ ExtractionCall
    \/ ExtractionLoop
    \/ ExtractionParse
    \/ ExtractionExcept
    \/ SleepElapse
    \/ MainShow

Spec == Init /\ [][Next]_vars

(***************************************************************************)
(* Reading the log of the current turn.                                    *)
(***************************************************************************)
Has(e) == \E n \in 1..Len(log) : log[n].ev = e
Count(e) == Cardinality({n \in 1..Len(log) : log[n].ev = e})
IsSleep(x) == x.ev = "sleep"
\* the backoff delays of this turn's extraction, in order
Delays == [n \in 1..Len(SelectSeq(log, IsSleep)) |-> SelectSeq(log, IsSleep)[n].n]
\* calls to query made by this turn's pii_extraction
ExtQueries == Cardinality({n \in 1..Len(requests) : requests[n].kind = "extract"})
\* position of the first event e in the log, 0 if there is none
FirstPos(e) ==
    IF Has(e) THEN CHOOSE n \in 1..Len(log) :
                       log[n].ev = e /\ \A m \in 1..(n - 1) : log[m].ev # e
    ELSE 0
IsStep(x) == x.ev \in {"attempt", "sleep", "extract_ret", "extract_raise"}
\* attempts, sleeps and the way out of this turn's extraction, in order
Skeleton == SelectSeq(log, IsStep)

(***************************************************************************)
(* C1: when every response of one pii_extraction invocation fails          *)
(* validation, the invocation makes exactly 3 calls to query and then      *)
(* returns {"error": "Max retries reached"}; no invocation makes a 4th     *)
(* call, and the marker is returned only after 3 failed validations.       *)
(***************************************************************************)
C1_ExhaustsAfterThree ==
    /\ ExtQueries <= 3
    /\ (Has("extract_ret") /\ ~Has("valid")) =>
           /\ ExtQueries = 3
           /\ Count("invalid") = 3
           /\ retries = 3
           /\ pii_info = ErrorMarker
    /\ pii_info = ErrorMarker =>
           /\ ExtQueries = 3
           /\ Count("invalid") = 3
           /\ ~Has("valid")

C1_Witness == pc = "main_show" /\ pii_info = ErrorMarker /\ ExtQueries = 3

(***************************************************************************)
(* C2 as stated: in an invocation whose responses are never valid the      *)
(* delays are 1 s then 2 s, each between two attempts, and no sleep        *)
(* happens between the 3rd failure and the return of the marker.           *)
(***************************************************************************)
C2_Original ==
    pii_info = ErrorMarker =>
        Skeleton = <<Ev("attempt", 1), Ev("sleep", 1), Ev("attempt", 2),
                     Ev("sleep", 2), Ev("attempt", 3), Ev("extract_ret", 0)>>

(***************************************************************************)
(* C2 amended: in an invocation whose responses are never valid the        *)
(* delays are 1 s, 2 s and 3 s in that order, one after each failed        *)
(* attempt; the first two lie between two attempts and the third lies      *)
(* between the 3rd failure and the return of the marker.  In every         *)
(* invocation the k-th delay is k seconds.                                 *)
(***************************************************************************)
C2_BackoffOneTwoThree ==
    /\ \A n \in 1..Len(Delays) : Delays[n] = n
    /\ Has("extract_call") => Len(Delays) = retries
    /\ Len(Delays) =
           Count("invalid") - (IF pc = "ext_raise" /\ Catches(exc) THEN 1 ELSE 0)
    /\ pii_info = ErrorMarker =>
           Skeleton = <<Ev("attempt", 1), Ev("sleep", 1), Ev("attempt", 2),
                        Ev("sleep", 2), Ev("attempt", 3), Ev("sleep", 3),
                        Ev("extract_ret", 0)>>

C2_Witness == pc = "main_show" /\ pii_info = ErrorMarker /\ Delays = <<1, 2, 3>>

(***************************************************************************)
(* C3: if the first k-1 responses fail validation and the k-th is valid    *)
(* (k = 1, 2, 3), pii_extraction returns the record built from the k-th    *)
(* response, and after that response it calls query no more and sleeps no  *)
(* more.                                                                   *)
(***************************************************************************)
C3_ReturnsOnFirstValid ==
    Has("valid") =>
        /\ pc \in {"main_show", "main_input"}
        /\ Count("valid") = 1
        /\ log[Len(log)] = Ev("extract_ret", 0)
        /\ log[Len(log) - 1] = Ev("valid", 0)
        /\ log[Len(log) - 2] = Ev("query_ret", 0)
        /\ ExtQueries = Count("invalid") + 1
        /\ ExtQueries \in 1..3
        /\ Len(Delays) = ExtQueries - 1
        /\ worker = "idle"
        /\ response.some
        /\ pii_info = ParseRaw(response).dict
        /\ DOMAIN pii_info = PIIFields

C3_Witness ==
    /\ pc = "main_show"
    /\ Has("valid")
    /\ Count("invalid") = 2
    /\ response = Some(TxtSsnOnly)
    /\ pii_info[social_security_numberK] = Some(<<"1", "2">>)

(***************************************************************************)
(* The classification rule on its own: pii_detection has received a        *)
(* completion from query and decides.  The completion is None, one of the  *)
(* model's texts, or any text of at most MaxLen characters over            *)
(* ClsAlphabet.                                                            *)
(***************************************************************************)
ClsAlphabet == {" ", "\n", "T", "r", "u", "e"}
TextsUpTo(n) == UNION {[1..m -> ClsAlphabet] : m \in 0..n}

InitClassify ==
    /\ pc = "det_decide"
    /\ turn = 1
    /\ sentence = SentSsn
    /\ contains_pii = FALSE
    /\ pii_info = NoDict
    /\ caller = "detect"
    /\ pools = 0
    /\ worker = "idle"
    /\ wres = NoOutcome
    /\ response \in {None} \cup {Some(t) : t \in TextsUpTo(MaxLen) \cup Texts}
    /\ retries = 0
    /\ backoff_time = 0
    /\ exc = "none"
    /\ loop = "running"
    /\ requests = <<[kind |-> "detect", sentence |-> SentSsn]>>
    /\ log = <<Ev("detect_call", 0), Ev("query_call", 0),
               Ev("invoke_done", 0), Ev("query_ret", 0)>>

NextClassify == DetectionDecide

SpecClassify == InitClassify /\ [][NextClassify]_vars

\* some leading whitespace, then the four characters T r u e
SaysTrue(t) ==
    \E i \in 0..Len(t) :
        /\ \A n \in 1..i : t[n] \in Whitespace
        /\ i + 4 <= Len(t)
        /\ t[i + 1] = "T" /\ t[i + 2] = "r" /\ t[i + 3] = "u" /\ t[i + 4] = "e"

(***************************************************************************)
(* C4: pii_detection returns True exactly when the response text, with     *)
(* surrounding whitespace stripped, starts with "True"; for "False", the   *)
(* empty text and lower-case "true" it returns False.                      *)
(***************************************************************************)
C4_TrueIffStrippedPrefix ==
    pc = "main_report" =>
        /\ response.some
        /\ contains_pii = SaysTrue(response.text)
        /\ response.text \in {FalseLit, <<>>, trueLower} => contains_pii = FALSE
        /\ log[Len(log)] = Ev("detect_ret", IF contains_pii THEN 1 ELSE 0)

C4_Witness ==
    /\ pc = "main_report"
    /\ contains_pii = TRUE
    /\ response = Some(<<" ", "T", "r", "u", "e", "\n">>)

(***************************************************************************)
(* C5 as stated: pii_detection never ends in an error, whatever the        *)
(* remote call produces (a text, a body without completion, a failure).    *)
(***************************************************************************)
C5_Original == ~(pc = "main_raised" /\ ~Has("extract_call"))

(***************************************************************************)
(* C6 as stated: once an invocation of pii_extraction is over it has       *)
(* produced exactly one outcome, a PII record or the failure marker,       *)
(* whatever the remote calls did (valid, invalid, transport failure).      *)
(***************************************************************************)
C6_Original ==
    (Has("extract_call") /\ pc \in {"main_show", "main_input", "main_raised"}) =>
        /\ Count("extract_ret") = 1
        /\ (pii_info = ErrorMarker) # (DOMAIN pii_info = PIIFields)

C8_TransportPropagates ==
    (caller = "extract" /\ exc \in {"TransportError", "BodyError"}) =>
        LET q == FirstPos("query_raise")
        IN  /\ q > 0
            /\ Count("query_raise") = 1
            /\ pc \in {"ext_raise", "main_raised"}
            /\ pc = "ext_raise" => Len(log) = q
            /\ pc = "main_raised" =>
                   Len(log) = q + 1 /\ log[q + 1] = Ev("extract_raise", 0)
            /\ retries = Count("caught")
            /\ retries = Count("invalid")
            /\ Len(Delays) = retries
            /\ ExtQueries = retries + 1
            /\ worker = "idle"
            /\ ~Has("extract_ret")

C8_Witness ==
    /\ pc = "main_raised"
    /\ exc = "TransportError"
    /\ caller = "extract"
    /\ Count("invalid") = 2

(***************************************************************************)
(* C9: in every turn pii_extraction is invoked if and only if              *)
(* pii_detection of that turn returned True, at most once, and only after  *)
(* pii_detection has returned.                                             *)
(***************************************************************************)
C9_ExtractOnlyAfterPositive ==
    /\ Count("extract_call") <= 1
    /\ Count("detect_call") <= 1
    /\ \A n \in 1..Len(log) :
           log[n].ev = "extract_call" =>
               /\ n > 1
               /\ log[n - 1] = Ev("detect_ret", 1)
               /\ contains_pii
    /\ (Has("detect_ret") /\ pc \notin {"main_report", "ext_call"}) =>
           (Has("extract_call") <=> contains_pii)
    /\ ~Has("detect_ret") => ~Has("extract_call")
    /\ (caller = "extract" /\ pc \in {"q_start", "q_await"}) => Has("extract_call")
    /\ pc \in {"ext_loop", "ext_parse", "ext_raise", "ext_sleep", "main_show"} =>
           Has("extract_call")

C9_Witness ==
    /\ pc = "ext_loop"
    /\ retries = 0
    /\ log[Len(log)] = Ev("extract_call", 0)
    /\ log[Len(log) - 1] = Ev("detect_ret", 1)

(***************************************************************************)
(* C10: retries of one extraction are strictly sequential: at most one     *)
(* remote call is outstanding at any moment, and attempt k+1 starts only   *)
(* after the call of attempt k has completed, its validation has failed    *)
(* and its backoff sleep has elapsed.                                      *)
(***************************************************************************)
Outstanding == Count("query_call") - Count("query_ret") - Count("query_raise")

C10_SequentialRetries ==
    /\ Outstanding \in {0, 1}
    /\ Outstanding = pools
    /\ (worker # "idle") <=> (Outstanding = 1)
    /\ \A n \in 1..Len(log) :
           (log[n].ev = "attempt" /\ log[n].n > 1) =>
               /\ n > 8
               /\ SubSeq(log, n - 8, n - 1) =
                      <<Ev("attempt", log[n].n - 1), Ev("query_call", 0),
                        Ev("invoke_done", 0), Ev("query_ret", 0),
                        Ev("invalid", 0), Ev("caught", log[n].n - 1),
                        Ev("sleep", log[n].n - 1), Ev("wake", 0)>>

C10_Witness ==
    /\ pc = "q_await"
    /\ worker = "running"
    /\ log[Len(log) - 1] = Ev("attempt", 3)

(***************************************************************************)
(* C11: the input "exit" in any letter case ends the loop of main; the     *)
(* turn that reads it calls neither pii_detection nor pii_extraction nor   *)
(* query, and no line is read after it.                                    *)
(***************************************************************************)
ExitInputs == {SentExit, SentExitUpper, SentExitMixed}

C11_ExitEndsLoop ==
    /\ [](/\ (turn > 0 /\ sentence \in ExitInputs) =>
                 /\ pc = "main_exit"
                 /\ log = <<>>
                 /\ requests = <<>>
                 /\ worker = "idle"
                 /\ pools = 0
          /\ pc = "main_exit" => sentence \in ExitInputs)
    /\ [][pc = "main_exit" => (pc' = "main_exit" /\ turn' = turn)]_vars

C11_Witness ==
    /\ pc = "main_exit"
    /\ sentence = SentExitMixed
    /\ turn = 2
    /\ log = <<>>

(***************************************************************************)
(* C12: each invocation of query issues exactly one call to the remote     *)
(* endpoint and never repeats it; so one pii_detection issues exactly one  *)
(* call, and one pii_extraction issues one call per attempt, between 1     *)
(* and 3.                                                                  *)
(***************************************************************************)
DetQueries == Cardinality({n \in 1..Len(requests) : requests[n].kind = "detect"})
DetectionOver ==
    Has("detect_ret") \/ Has("detect_raise") \/ (pc = "main_raised" /\ ~Has("extract_call"))
ExtractionOver == Has("extract_ret") \/ Has("extract_raise")

C12_OneCallPerQuery ==
    /\ Count("query_call") = Len(requests)
    /\ Count("invoke_done") = Count("query_call") - (IF worker = "running" THEN 1 ELSE 0)
    /\ \A n \in 1..Len(log) :
           /\ log[n].ev = "invoke_done" => (n > 1 /\ log[n - 1].ev = "query_call")
           /\ (log[n].ev = "query_call" /\ n < Len(log)) =>
                  log[n + 1].ev = "invoke_done"
           /\ (log[n].ev = "invoke_done" /\ n < Len(log)) =>
                  log[n + 1].ev \in {"query_ret", "query_raise"}
           /\ log[n].ev \in {"query_ret", "query_raise"} =>
                  (n > 2 /\ log[n - 1].ev = "invoke_done")
    /\ DetQueries <= 1
    /\ DetectionOver => (DetQueries = 1 /\ Count("invoke_done") >= 1)
    /\ Has("extract_call") =>
           ExtQueries = Count("attempt") - (IF pc = "q_start" THEN 1 ELSE 0)
    /\ ExtractionOver =>
           /\ ExtQueries \in 1..3
           /\ Count("invoke_done") = 1 + ExtQueries

C12_Witness ==
    /\ Has("extract_raise")
    /\ ExtQueries = 2
    /\ Count("invoke_done") = 3

(***************************************************************************)
(* C13: the failure marker differs from everything a successful            *)
(* extraction returns: whatever the response (a JSON object with an        *)
(* "error" key included), the returned record is not equal to the marker   *)
(* and shares no key with it.                                              *)
(***************************************************************************)
C13_MarkerDistinct ==
    /\ Has("valid") =>
           /\ pii_info # ErrorMarker
           /\ DOMAIN pii_info = PIIFields
           /\ errorK \notin DOMAIN pii_info
           /\ DOMAIN pii_info \cap DOMAIN ErrorMarker = {}
    /\ (Has("extract_ret") /\ ~Has("valid")) =>
           /\ pii_info = ErrorMarker
           /\ DOMAIN pii_info \cap PIIFields = {}

C13_Witness ==
    /\ pc = "main_show"
    /\ Has("valid")
    /\ response = Some(TxtErrorObj)
    /\ pii_info = NoRecord

(***************************************************************************)
(* Validation on its own: pii_extraction has received from query a JSON    *)
(* object that gives each of the seven fields as absent, null, the empty   *)
(* string or a one-character string, and validates it.                     *)
(***************************************************************************)
\* the fields in the order of the prompt, lines 94-100
FieldOrder ==
    <<nameK, numberK, emailK, addressK, social_security_numberK,
      credit_card_numberK, explanationK>>
FieldChar == <<"1", "2", "3", "4", "5", "6", "7">>
ValueKinds == {"absent", "null", "empty", "str"}

Member(n, kind) ==
    Q(FieldOrder[n]) \o <<":">> \o
        (IF kind = "null" THEN nullLit
         ELSE IF kind = "empty" THEN Q(<<>>)
         ELSE Q(<<FieldChar[n]>>))

\* the members for fields n..7 that are present, separated by commas
RECURSIVE RenderMembers(_, _, _)
RenderMembers(a, n, first) ==
    IF n > Len(FieldOrder) THEN <<>>
    ELSE IF a[n] = "absent" THEN RenderMembers(a, n + 1, first)
    ELSE (IF first THEN <<>> ELSE <<",">>) \o Member(n, a[n])
             \o RenderMembers(a, n + 1, FALSE)

RenderObj(a) == <<"{">> \o RenderMembers(a, 1, TRUE) \o <<"}">>

ObjectTexts == {RenderObj(a) : a \in [1..Len(FieldOrder) -> ValueKinds]}

InitValidate ==
    /\ pc = "ext_parse"
    /\ turn = 1
    /\ sentence = SentSsn
    /\ contains_pii = TRUE
    /\ pii_info = NoDict
    /\ caller = "extract"
    /\ pools = 0
    /\ worker = "idle"
    /\ wres = NoOutcome
    /\ response \in {Some(t) : t \in ObjectTexts}
    /\ retries = 0
    /\ backoff_time = InitialBackoff
    /\ exc = "none"
    /\ loop = "running"
    /\ requests = <<[kind |-> "detect", sentence |-> SentSsn],
                    [kind |-> "extract", sentence |-> SentSsn]>>
    /\ log = <<Ev("detect_call", 0), Ev("query_call", 0), Ev("invoke_done", 0),
               Ev("query_ret", 0), Ev("detect_ret", 1), Ev("extract_call", 0),
               Ev("attempt", 1), Ev("query_call", 0), Ev("invoke_done", 0),
               Ev("query_ret", 0)>>

NextValidate == ExtractionParse

SpecValidate == InitValidate /\ [][NextValidate]_vars

\* p occurs in t
Contains(t, p) ==
    \E i \in 1..(Len(t) - Len(p) + 1) : SubSeq(t, i, i + Len(p) - 1) = p

(***************************************************************************)
(* C14: no field is required.  A JSON object whose present values are      *)
(* strings or null validates for every subset of the seven fields, the     *)
(* empty object included; each field of the record is the string the       *)
(* response gives for its key, and a key that is missing or null gives an  *)
(* absent field (None), not an empty string.                               *)
(***************************************************************************)
C14_NoFieldRequired ==
    /\ pc \in {"ext_parse", "main_show"}
    /\ pc = "main_show" =>
           /\ DOMAIN pii_info = PIIFields
           /\ \A n \in 1..Len(FieldOrder) :
                  LET key == Q(FieldOrder[n]) \o <<":">>
                      got == pii_info[FieldOrder[n]]
                  IN  IF Contains(response.text, key \o Q(<<FieldChar[n]>>))
                      THEN got = Some(<<FieldChar[n]>>)
                      ELSE IF Contains(response.text, key \o Q(<<>>))
                      THEN got = Some(<<>>)
                      ELSE got = None /\ ~got.some

C14_Witness ==
    /\ pc = "main_show"
    /\ response = Some(<<"{">> \o Member(5, "str") \o <<"}">>)
    /\ pii_info = [NoRecord EXCEPT ![social_security_numberK] = Some(<<"5">>)]

(***************************************************************************)
(* C15 as stated: a transport error raised during a turn's pii_detection   *)
(* or pii_extraction ends that turn only; main keeps running and goes on   *)
(* to read the next sentence, so such an error never ends main.            *)
(***************************************************************************)
C15_Original == exc = "TransportError" => pc # "main_raised"

(***************************************************************************)
(* C16: the event-loop thread is never blocked on the remote call or on a  *)
(* backoff delay.  invoke_model runs on the worker thread while the        *)
(* calling coroutine is suspended and the loop is free; the backoff is a   *)
(* suspension that leaves the loop free; the coroutine resumes with the    *)
(* result only after the worker has completed.                             *)
(***************************************************************************)
C16_LoopNeverBlockedOnCall ==
    /\ worker # "idle" => (pc = "q_await" /\ loop = "free")
    /\ pc = "q_await" => (loop = "free" /\ worker # "idle")
    /\ pc = "ext_sleep" => (loop = "free" /\ worker = "idle")
    /\ loop = "blocked" => (pc = "main_input" /\ worker = "idle")
    /\ loop = "free" => pc \in {"q_await", "ext_sleep"}
    /\ pc \in {"det_decide", "ext_parse"} =>
           /\ loop = "running"
           /\ worker = "idle"
           /\ log[Len(log)] = Ev("query_ret", 0)
           /\ log[Len(log) - 1] = Ev("invoke_done", 0)

C16_Witness ==
    /\ worker = "running"
    /\ loop = "free"
    /\ caller = "extract"
    /\ Len(Delays) = 2

(***************************************************************************)
(* Scheduling: a coroutine that can run is run, every remote call          *)
(* completes or fails and every sleep elapses; only the user's next line   *)
(* may never come.                                                         *)
(***************************************************************************)
Progress ==
    \/ DetectionCall
    \/ QueryStart
    \/ \E o \in InvokeOutcomes : InvokeModel(o)
    \/ QueryFinish
    \/ DetectionDecide
    \/ MainReport
    \/ ExtractionCall
    \/ ExtractionLoop
    \/ ExtractionParse
    \/ ExtractionExcept
    \/ SleepElapse
    \/ MainShow

LiveSpec == Init /\ [][Next]_vars /\ WF_vars(Progress)

ExtractionRunning ==
    \/ pc \in {"ext_call", "ext_loop", "ext_parse", "ext_raise", "ext_sleep"}
    \/ pc \in {"q_start", "q_await"} /\ caller = "extract"
ExtractionEnded == pc \in {"main_show", "main_raised"}

(***************************************************************************)
(* C17: every invocation of pii_extraction terminates: if each remote call *)
(* completes or fails and each sleep elapses, the invocation reaches a     *)
(* record, the failure marker or a raised error, after at most 3 attempts. *)
(***************************************************************************)
C17_ExtractionTerminates ==
    /\ [](ExtQueries <= 3 /\ (ExtractionRunning => retries <= 3))
    /\ ExtractionRunning ~> ExtractionEnded

C17_Witness ==
    /\ pc = "main_show"
    /\ Has("valid")
    /\ ExtQueries = 3
    /\ retries = 2

QueryLeft ==
    /\ Len(log) > 0
    /\ log[Len(log)].ev \in {"query_ret", "query_raise"}

(***************************************************************************)
(* C18: the worker pool that query creates is shut down on every way out   *)
(* of the call: whether the remote call succeeded or failed, no pool is    *)
(* left when query has returned or raised, a pool exists only while query  *)
(* awaits the worker, and there is never more than one pool.               *)
(***************************************************************************)
C18_PoolReleased ==
    /\ pools \in {0, 1}
    /\ pools = 1 <=> pc = "q_await"
    /\ QueryLeft => pools = 0
    /\ pc \in {"main_raised", "main_exit", "main_input"} => pools = 0

C18_Witness ==
    /\ turn = 2
    /\ pc = "main_raised"
    /\ exc = "TransportError"
    /\ log[Len(log)] = Ev("query_raise", 0)
    /\ pools = 0

ExtractRequests == {n \in 1..Len(requests) : requests[n].kind = "extract"}

FreshInvocation ==
    /\ pc = "ext_loop"
    /\ log[Len(log)] = Ev("extract_call", 0)

(***************************************************************************)
(* C19: no retry state carries over between invocations: whatever the      *)
(* earlier turns left in the counter and the delay, entering               *)
(* pii_extraction sets the counter to 0 and the delay to 1 second, so all  *)
(* 3 attempts are available (the failure marker is returned only after 3   *)
(* calls of the invocation itself), and every attempt of one invocation    *)
(* sends the request for the same sentence.                                *)
(***************************************************************************)
C19_NoCarryOver ==
    /\ [][pc = "ext_call" => (retries' = 0 /\ backoff_time' = 1)]_vars
    /\ [](FreshInvocation => (retries = 0 /\ backoff_time = 1 /\ ExtQueries = 0))
    /\ []((pc = "main_show" /\ pii_info = ErrorMarker) => ExtQueries = 3)
    /\ [](\A n \in ExtractRequests :
             requests[n] = [kind |-> "extract", sentence |-> sentence])

C19_Witness ==
    /\ turn = 2
    /\ pc = "ext_call"
    /\ retries = 3
    /\ backoff_time = 4

====
